---- MODULE Spec2Model ----
(***************************************************************************)
(* A model of cairosvg/surface.py: the value parser (size), the colour     *)
(* parser (color), the viewport fitter (Surface._set_context_size), the    *)
(* path interpreter (Surface.path) and the scene walker (Surface.draw).    *)
(*                                                                         *)
(* Conventions.                                                            *)
(*  - A Python str is a sequence of one-character strings; None and ""     *)
(*    are both the empty sequence where the code only tests "not string".  *)
(*  - A Python float is an exact rational [n, d] in lowest terms, d > 0    *)
(*    (rounding is not modelled).                                          *)
(*  - A call that raises yields a record whose tag names the exception.    *)
(***************************************************************************)
EXTENDS Integers, Sequences, FiniteSets, TLC

VARIABLES
    call,       \* the pending call of a module-level function and its arguments
    result,     \* what that call returned or raised
    context,    \* the cairo context: matrix, fill rule, saved states, current point
    ops,        \* the calls made on the context, in order
    scan,       \* the locals of Surface.path: string, letter, last_letter, x2..y3
    tree,       \* the root node of the document being drawn
    frames,     \* the active calls of Surface.draw, innermost last
    returned    \* the record of the last call of Surface.draw that returned

vars == <<call, result, context, ops, scan, tree, frames, returned>>

(***************************************************************************)
(* Exact arithmetic standing for Python's floats.                          *)
(***************************************************************************)
Abs(a) == IF a < 0 THEN -a ELSE a

RECURSIVE Gcd(_, _)
Gcd(a, b) == IF b = 0 THEN a ELSE Gcd(b, a % b)

Frac(n, d) ==
    LET s == IF d < 0 THEN -1 ELSE 1
        g == Gcd(Abs(n), Abs(d))
    IN  [n |-> (s * n) \div g, d |-> (s * d) \div g]

R(i) == [n |-> i, d |-> 1]
RAdd(a, b) == Frac(a.n * b.d + b.n * a.d, a.d * b.d)
RSub(a, b) == Frac(a.n * b.d - b.n * a.d, a.d * b.d)
RMul(a, b) == Frac(a.n * b.n, a.d * b.d)
RDiv(a, b) == Frac(a.n * b.d, a.d * b.n)
RNeg(a) == [n |-> -a.n, d |-> a.d]
RLt(a, b) == a.n * b.d < b.n * a.d
RMin(a, b) == IF RLt(b, a) THEN b ELSE a

(***************************************************************************)
(* Python's str methods on sequences of characters.                        *)
(***************************************************************************)
RECURSIVE lstrip(_, _)
lstrip(s, chars) ==
    IF s # <<>> /\ Head(s) \in chars THEN lstrip(Tail(s), chars) ELSE s

RECURSIVE rstrip(_, _)
rstrip(s, chars) ==
    IF s # <<>> /\ s[Len(s)] \in chars
    THEN rstrip(SubSeq(s, 1, Len(s) - 1), chars) ELSE s

strip(s, chars) == rstrip(lstrip(s, chars), chars)

\* sub in s
contains(sub, s) ==
    \E i \in 1..(Len(s) + 1) :
        /\ i + Len(sub) - 1 <= Len(s)
        /\ SubSeq(s, i, i + Len(sub) - 1) = sub

startswith(s, prefix) ==
    Len(prefix) <= Len(s) /\ SubSeq(s, 1, Len(prefix)) = prefix

\* s.replace(c, "", 1)
RECURSIVE replace_first(_, _)
replace_first(s, c) ==
    IF s = <<>> THEN <<>>
    ELSE IF Head(s) = c THEN Tail(s)
    ELSE <<Head(s)>> \o replace_first(Tail(s), c)

\* s[a:b], a and b counted from 0 as in Python
slice(s, a, b) == SubSeq(s, a + 1, IF b < Len(s) THEN b ELSE Len(s))

\* s.split(c)
RECURSIVE split(_, _)
split(s, c) ==
    IF \A i \in 1..Len(s) : s[i] # c THEN <<s>>
    ELSE LET i == CHOOSE j \in 1..Len(s) :
                      s[j] = c /\ \A k \in 1..(j - 1) : s[k] # c
         IN  <<SubSeq(s, 1, i - 1)>> \o split(SubSeq(s, i + 1, Len(s)), c)

Digits == {"0", "1", "2", "3", "4", "5", "6", "7", "8", "9"}

DigitVal(c) ==
    CASE c = "0" -> 0 [] c = "1" -> 1 [] c = "2" -> 2 [] c = "3" -> 3
      [] c = "4" -> 4 [] c = "5" -> 5 [] c = "6" -> 6 [] c = "7" -> 7
      [] c = "8" -> 8 [] c = "9" -> 9 [] c = "a" -> 10 [] c = "b" -> 11
      [] c = "c" -> 12 [] c = "d" -> 13 [] c = "e" -> 14 [] c = "f" -> 15

isdigit(s) == s # <<>> /\ \A i \in 1..Len(s) : s[i] \in Digits

RECURSIVE NatOf(_, _)
NatOf(s, base) ==
    IF s = <<>> THEN 0
    ELSE NatOf(SubSeq(s, 1, Len(s) - 1), base) * base + DigitVal(s[Len(s)])

RECURSIVE Pow10(_)
Pow10(k) == IF k = 0 THEN 1 ELSE 10 * Pow10(k - 1)

\* float(s): surrounding blanks, one sign, digits with at most one point
float_digits(neg, whole, frac, count) ==
    IF /\ count <= 2
       /\ whole \o frac # <<>>
       /\ \A i \in 1..Len(whole) : whole[i] \in Digits
       /\ \A i \in 1..Len(frac) : frac[i] \in Digits
    THEN [tag |-> "float",
          val |-> Frac((IF neg THEN -1 ELSE 1) * NatOf(whole \o frac, 10),
                       Pow10(Len(frac)))]
    ELSE [tag |-> "ValueError", val |-> R(0)]

float_parts(neg, parts) ==
    float_digits(neg, parts[1], IF Len(parts) = 2 THEN parts[2] ELSE <<>>, Len(parts))

float_stripped(t) ==
    float_parts(t # <<>> /\ Head(t) = "-",
                split(IF t # <<>> /\ Head(t) \in {"-", "+"} THEN Tail(t) ELSE t, "."))

float(s) == float_stripped(strip(s, {" "}))

Str1(a) == <<a>>
WhiteSpace == {" ", "\t", "\n", "\r"}

Upper == <<"A", "B", "C", "D", "E", "F", "G", "H", "I", "J", "K", "L", "M",
           "N", "O", "P", "Q", "R", "S", "T", "U", "V", "W", "X", "Y", "Z">>
Lower == <<"a", "b", "c", "d", "e", "f", "g", "h", "i", "j", "k", "l", "m",
           "n", "o", "p", "q", "r", "s", "t", "u", "v", "w", "x", "y", "z">>

lower(s) ==
    [i \in 1..Len(s) |->
        IF \E k \in 1..26 : Upper[k] = s[i]
        THEN Lower[CHOOSE k \in 1..26 : Upper[k] = s[i]]
        ELSE s[i]]

(***************************************************************************)
(* The value parser: DPI, UNITS and size().                                *)
(***************************************************************************)
DPI == 72

\* UNITS in the order the dict lists (and iterates) them; None and
\* NotImplemented are coefficients that are not numbers.
UNITS ==
    << [unit |-> <<"m", "m">>, coefficient |-> [tag |-> "num", val |-> Frac(10, 254)]],
       [unit |-> <<"c", "m">>, coefficient |-> [tag |-> "num", val |-> Frac(100, 254)]],
       [unit |-> <<"i", "n">>, coefficient |-> [tag |-> "num", val |-> R(1)]],
       [unit |-> <<"p", "t">>, coefficient |-> [tag |-> "num", val |-> Frac(1, 72)]],
       [unit |-> <<"p", "c">>, coefficient |-> [tag |-> "num", val |-> Frac(1, 6)]],
       [unit |-> <<"p", "x">>, coefficient |-> [tag |-> "None", val |-> R(0)]],
       [unit |-> <<"e", "m">>, coefficient |-> [tag |-> "NotImplemented", val |-> R(0)]],
       [unit |-> <<"e", "x">>, coefficient |-> [tag |-> "NotImplemented", val |-> R(0)]],
       [unit |-> <<"%">>, coefficient |-> [tag |-> "NotImplemented", val |-> R(0)]] >>

Chars(s) == {s[i] : i \in 1..Len(s)}

\* a coefficient that is a number other than 0, without the DPI
unit_factor_without_dpi(coefficient) ==
    IF coefficient.tag = "num" /\ coefficient.val.n # 0
    THEN coefficient.val
    ELSE R(1)

\* (DPI * coefficient if coefficient else 1) for a coefficient that is a
\* number or None
unit_factor(coefficient) ==
    IF coefficient.tag = "num" /\ coefficient.val.n # 0
    THEN RMul(R(DPI), coefficient.val)
    ELSE R(1)

\* number * (DPI * coefficient if coefficient else 1)
size_number(coefficient, number) ==
    IF number.tag = "ValueError" THEN number
    ELSE IF coefficient.tag = "NotImplemented"
    THEN [tag |-> "TypeError", val |-> R(0)]
    ELSE [tag |-> "float", val |-> RMul(number.val, unit_factor(coefficient))]

\* the body of "for unit, coefficient in UNITS.items()" for the first unit
\* found in the string
size_unit(string, u) ==
    size_number(u.coefficient, float(strip(string, {" "} \cup Chars(u.unit))))

size_units(string, hits) ==
    IF hits = {} THEN [tag |-> "None", val |-> R(0)]
    ELSE size_unit(string, UNITS[CHOOSE j \in hits : \A k \in hits : j <= k])

size(string) ==
    IF string = <<>> THEN [tag |-> "int", val |-> R(0)]
    ELSE IF isdigit(lstrip(replace_first(string, "."), {" ", "-"}))
    THEN float(string)
    ELSE size_units(string, {i \in 1..Len(UNITS) : contains(UNITS[i].unit, string)})

(***************************************************************************)
(* The colour parser: COLORS and color().                                  *)
(***************************************************************************)
\* The name table of cairosvg/colors.py, cut to one name.
COLORS == [name \in {<<"r", "e", "d">>} |-> <<"#", "f", "f", "0", "0", "0", "0">>]

HexDigits == Digits \cup {"a", "b", "c", "d", "e", "f"}

\* int(value, 16) of a string without sign, prefix or blanks
int16(value) ==
    IF value # <<>> /\ \A i \in 1..Len(value) : value[i] \in HexDigits
    THEN [tag |-> "int", val |-> NatOf(value, 16)]
    ELSE [tag |-> "ValueError", val |-> 0]

RECURSIVE double_chars(_)
double_chars(s) ==
    IF s = <<>> THEN <<>> ELSE <<Head(s), Head(s)>> \o double_chars(Tail(s))

ValueError == [tag |-> "ValueError", val |-> <<>>]

\* the rgb(...) and rgba(...) forms: n numbers between the brackets
color_numbers(nums, n, opacity) ==
    IF \E i \in 1..Len(nums) : nums[i].tag = "ValueError" THEN ValueError
    ELSE IF Len(nums) # n THEN ValueError
    ELSE [tag |-> "rgba",
          val |-> <<nums[1].val, nums[2].val, nums[3].val,
                    IF n = 4 THEN RMul(nums[4].val, opacity) ELSE opacity>>]

color_parts(parts, n, opacity) ==
    color_numbers([i \in 1..Len(parts) |-> float(parts[i])], n, opacity)

color_function(string, n, opacity) ==
    color_parts(split(strip(string, {" ", "r", "g", "b", "a", "(", ")"}), ","),
                n, opacity)

\* the channels of a string of hex digits, after the shorthand is expanded
color_channels(string, opacity, red, green, blue, alpha) ==
    IF Len(string) = 9 /\ alpha.tag = "ValueError" THEN ValueError
    ELSE IF "ValueError" \in {red.tag, green.tag, blue.tag} THEN ValueError
    ELSE [tag |-> "rgba",
          val |-> <<Frac(red.val, 255), Frac(green.val, 255), Frac(blue.val, 255),
                    IF Len(string) = 9
                    THEN RMul(opacity, Frac(alpha.val, 255))
                    ELSE opacity>>]

color_hex(string, opacity) ==
    color_channels(string, opacity,
                   int16(slice(string, 1, 3)), int16(slice(string, 3, 5)),
                   int16(slice(string, 5, 7)), int16(slice(string, 7, 9)))

\* "if len(string) in (4, 5)": the shorthand
color_expand(string, opacity) ==
    color_hex(IF Len(string) \in {4, 5}
              THEN <<"#">> \o double_chars(Tail(string))
              ELSE string,
              opacity)

color_lowered(string, opacity) ==
    IF startswith(string, <<"r", "g", "b", "a">>) THEN color_function(string, 4, opacity)
    ELSE IF startswith(string, <<"r", "g", "b">>) THEN color_function(string, 3, opacity)
    ELSE color_expand(IF string \in DOMAIN COLORS THEN COLORS[string] ELSE string,
                      opacity)

color(string, opacity) ==
    IF string = <<>> \/ string = <<"n", "o", "n", "e">>
    THEN [tag |-> "rgba", val |-> <<R(0), R(0), R(0), R(0)>>]
    ELSE color_lowered(lower(strip(string, WhiteSpace)), opacity)

(***************************************************************************)
(* The cairo context, as far as the code drives it: an axis-aligned        *)
(* matrix (user -> device: X = xx * x + x0, Y = yy * y + y0), the fill     *)
(* rule, the stack of saved states, and the current point in user space.   *)
(***************************************************************************)
Identity == [xx |-> R(1), yy |-> R(1), x0 |-> R(0), y0 |-> R(0)]

NewContext ==
    [matrix |-> Identity, fill_rule |-> "WINDING", saved |-> <<>>,
     point |-> <<R(0), R(0)>>, start |-> <<R(0), R(0)>>]

Op(name, args) == [op |-> name, args |-> args]

\* context.translate(tx, ty)
translate(c, tx, ty) ==
    [c EXCEPT !.matrix.x0 = RAdd(@, RMul(c.matrix.xx, tx)),
              !.matrix.y0 = RAdd(@, RMul(c.matrix.yy, ty))]

\* context.scale(sx, sy)
scale(c, sx, sy) ==
    [c EXCEPT !.matrix.xx = RMul(@, sx), !.matrix.yy = RMul(@, sy)]

\* context.save(): the matrix and the fill rule are pushed, the path is not
save(c) ==
    [c EXCEPT !.saved = Append(@, [matrix |-> c.matrix, fill_rule |-> c.fill_rule])]

\* context.restore() with a saved state to pop
restore(c) ==
    [c EXCEPT !.matrix = c.saved[Len(c.saved)].matrix,
              !.fill_rule = c.saved[Len(c.saved)].fill_rule,
              !.saved = SubSeq(@, 1, Len(@) - 1)]

(***************************************************************************)
(* The viewport fitter, Surface._set_context_size: the context and the     *)
(* calls made on it, or the exception raised.                              *)
(***************************************************************************)
ZeroDivision(c) == [tag |-> "ZeroDivisionError", context |-> c, calls |-> <<>>]

\* a ratio of 0 reaches context.scale(0, 0), which cairo refuses
InvalidMatrix(c, extent, ratio) ==
    [tag |-> "cairo.Error", context |-> c,
     calls |-> << Op("translate", <<RDiv(extent, R(2)), R(0)>>),
                  Op("scale", <<ratio, ratio>>) >>]

_set_context_size(c, width, height, viewbox) ==
    IF viewbox = <<>> THEN [tag |-> "None", context |-> c, calls |-> <<>>]
    ELSE
    LET x == viewbox[1]
        y == viewbox[2]
        x_size == viewbox[3]
        y_size == viewbox[4]
    IN  IF x_size.n = 0 \/ y_size.n = 0 THEN ZeroDivision(c)
        ELSE
        LET x_ratio == RDiv(width, x_size)
            y_ratio == RDiv(height, y_size)
        IN  IF RLt(y_ratio, x_ratio)
            THEN IF y_ratio.n = 0 THEN InvalidMatrix(c, width, y_ratio)
                 ELSE
                 LET tx == RDiv(RSub(width, RMul(x_size, y_ratio)), R(2))
                     ty == RMul(RDiv(RNeg(y), y_ratio), x_ratio)
                 IN  [tag |-> "None",
                      context |-> translate(scale(translate(c, tx, R(0)),
                                                  y_ratio, y_ratio),
                                            RNeg(x), ty),
                      calls |-> << Op("translate", <<tx, R(0)>>),
                                   Op("scale", <<y_ratio, y_ratio>>),
                                   Op("translate", <<RNeg(x), ty>>) >>]
            ELSE IF RLt(x_ratio, y_ratio)
            THEN IF x_ratio.n = 0 THEN InvalidMatrix(c, height, x_ratio)
                 ELSE
                 LET ty == RDiv(RSub(height, RMul(y_size, x_ratio)), R(2))
                     tx == RMul(RDiv(RNeg(x), x_ratio), y_ratio)
                 IN  [tag |-> "None",
                      context |-> translate(scale(translate(c, R(0), ty),
                                                  x_ratio, x_ratio),
                                            tx, RNeg(y)),
                      calls |-> << Op("translate", <<R(0), ty>>),
                                   Op("scale", <<x_ratio, x_ratio>>),
                                   Op("translate", <<tx, RNeg(y)>>) >>]
            ELSE [tag |-> "None",
                  context |-> translate(scale(c, x_ratio, y_ratio),
                                        RNeg(x), RNeg(y)),
                  calls |-> << Op("scale", <<x_ratio, y_ratio>>),
                               Op("translate", <<RNeg(x), RNeg(y)>>) >>]

(***************************************************************************)
(* The token stream helpers: normalize() and point().  A number is the     *)
(* record size() returns: tag "int" or "float" with its value, or tag      *)
(* "None".                                                                 *)
(***************************************************************************)
PATH_LETTERS ==
    <<"a", "c", "h", "l", "m", "q", "s", "t", "v", "z",
      "A", "C", "H", "L", "M", "Q", "S", "T", "V", "Z">>

\* s.split(c, maxsplit)
RECURSIVE splitn(_, _, _)
splitn(s, c, maxsplit) ==
    IF maxsplit = 0 \/ \A i \in 1..Len(s) : s[i] # c THEN <<s>>
    ELSE LET i == CHOOSE j \in 1..Len(s) :
                      s[j] = c /\ \A k \in 1..(j - 1) : s[k] # c
         IN  <<SubSeq(s, 1, i - 1)>>
                 \o splitn(SubSeq(s, i + 1, Len(s)), c, maxsplit - 1)

\* every run of blanks becomes one blank
RECURSIVE collapse_spaces(_)
collapse_spaces(s) ==
    IF Len(s) < 2 THEN s
    ELSE IF s[1] = " " /\ s[2] = " " THEN collapse_spaces(Tail(s))
    ELSE <<Head(s)>> \o collapse_spaces(Tail(s))

RECURSIVE separate(_)
separate(s) ==
    IF s = <<>> THEN <<>>
    ELSE (CASE Head(s) = "-" -> <<" ", "-">>
            [] Head(s) = "," -> <<" ">>
            [] OTHER -> <<Head(s)>>) \o separate(Tail(s))

normalize(string) == collapse_spaces(separate(string))

\* every path letter gets a blank on both sides
RECURSIVE pad_letters(_)
pad_letters(s) ==
    IF s = <<>> THEN <<>>
    ELSE (IF Head(s) \in Chars(PATH_LETTERS)
          THEN <<" ", Head(s), " ">>
          ELSE <<Head(s)>>) \o pad_letters(Tail(s))

Int0 == [tag |-> "int", val |-> R(0)]
Float(v) == [tag |-> "float", val |-> v]
Unbound == [tag |-> "unbound", val |-> R(0)]
IsNumber(v) == v.tag \in {"int", "float"}

point_values(string, x, y, rest) ==
    IF x.tag \notin {"int", "float", "None"}
    THEN [tag |-> x.tag, x |-> Int0, y |-> Int0, string |-> string]
    ELSE IF y.tag \notin {"int", "float", "None"}
    THEN [tag |-> y.tag, x |-> Int0, y |-> Int0, string |-> string]
    ELSE [tag |-> "ok", x |-> x, y |-> y, string |-> rest]

point_parts(string, parts) ==
    IF Len(parts) # 3
    THEN [tag |-> "ValueError", x |-> Int0, y |-> Int0, string |-> string]
    ELSE point_values(string, size(parts[1]), size(parts[2]), parts[3])

point(string) ==
    IF string = <<>> THEN [tag |-> "ok", x |-> Int0, y |-> Int0, string |-> <<>>]
    ELSE point_parts(string, splitn(strip(string, WhiteSpace) \o <<" ">>, " ", 2))

\* n calls of point() in a row: the 2n numbers and what is left
RECURSIVE points(_, _)
points_rest(p, rest) ==
    IF rest.tag # "ok" THEN rest
    ELSE [tag |-> "ok", vals |-> <<p.x, p.y>> \o rest.vals, string |-> rest.string]

points_next(string, n, p) ==
    IF p.tag # "ok" THEN [tag |-> p.tag, vals |-> <<>>, string |-> string]
    ELSE points_rest(p, points(p.string, n - 1))

points(string, n) ==
    IF n = 0 THEN [tag |-> "ok", vals |-> <<>>, string |-> string]
    ELSE points_next(string, n, point(string))

quadratic_points(x1, y1, x2, y2, x3, y3) ==
    << RAdd(RDiv(RMul(x2, R(2)), R(3)), RDiv(x1, R(3))),
       RAdd(RDiv(RMul(y2, R(2)), R(3)), RDiv(y1, R(3))),
       RAdd(RDiv(RMul(x2, R(2)), R(3)), RDiv(x3, R(3))),
       RAdd(RDiv(RMul(y2, R(2)), R(3)), RDiv(y3, R(3))),
       x3, y3 >>

\* rotate(x, y, angle) for an angle of quarter turns (cos and sin exact)
Cos4(quarters) == CASE quarters % 4 = 0 -> 1 [] quarters % 4 = 2 -> -1 [] OTHER -> 0
Sin4(quarters) == CASE quarters % 4 = 1 -> 1 [] quarters % 4 = 3 -> -1 [] OTHER -> 0

rotate(x, y, quarters) ==
    << RSub(RMul(x, R(Cos4(quarters))), RMul(y, R(Sin4(quarters)))),
       RAdd(RMul(y, R(Cos4(quarters))), RMul(x, R(Sin4(quarters)))) >>

(***************************************************************************)
(* The path calls of the cairo context and their effect on the current     *)
(* point.                                                                  *)
(***************************************************************************)
add_point(p, dx, dy) == <<RAdd(p[1], dx), RAdd(p[2], dy)>>

draw_to(c, name, a) ==
    CASE name = "move_to" -> [c EXCEPT !.point = <<a[1], a[2]>>, !.start = <<a[1], a[2]>>]
      [] name = "rel_move_to" ->
            [c EXCEPT !.point = add_point(c.point, a[1], a[2]),
                      !.start = add_point(c.point, a[1], a[2])]
      [] name = "line_to" -> [c EXCEPT !.point = <<a[1], a[2]>>]
      [] name = "rel_line_to" -> [c EXCEPT !.point = add_point(c.point, a[1], a[2])]
      [] name = "curve_to" -> [c EXCEPT !.point = <<a[5], a[6]>>]
      [] name = "rel_curve_to" -> [c EXCEPT !.point = add_point(c.point, a[5], a[6])]
      [] name = "close_path" -> [c EXCEPT !.point = c.start]

(***************************************************************************)
(* The path interpreter, Surface.path.  scan holds the locals that live    *)
(* across iterations of "while string": string, letter, last_letter and    *)
(* x2, y2, x3, y3.  A branch yields the locals, the context and the calls  *)
(* it made; scan.state becomes "raised" when it raised.                    *)
(***************************************************************************)
\* Python's None where a str is expected: a value no str equals
None == <<"None">>

Raise(sc, c, calls, exception) ==
    [scan |-> [sc EXCEPT !.state = "raised", !.error = exception],
     context |-> c, calls |-> calls]

Vals(vs) == [i \in 1..Len(vs) |-> vs[i].val]

\* what using v in arithmetic raises
Arith(v) ==
    CASE v.tag = "unbound" -> "UnboundLocalError"
      [] v.tag = "None" -> "TypeError"
      [] OTHER -> "ok"

\* one path call on the context; cairo refuses an argument that is None
emit(sc, c, name, vs) ==
    IF \E i \in 1..Len(vs) : ~IsNumber(vs[i])
    THEN Raise(sc, c, <<>>, "TypeError")
    ELSE [scan |-> sc, context |-> draw_to(c, name, Vals(vs)),
          calls |-> <<Op(name, Vals(vs))>>]

\* l, L, m, M: one point, one call
point_emit(sc, c, name, p) ==
    IF p.tag # "ok" THEN Raise(sc, c, <<>>, p.tag)
    ELSE emit([sc EXCEPT !.string = p.string], c, name, p.vals)

point_command(sc, c, name) == point_emit(sc, c, name, points(sc.string, 1))

\* c, C: three points, one call
curve_emit(sc, c, name, p) ==
    IF p.tag # "ok" THEN Raise(sc, c, <<>>, p.tag)
    ELSE emit([sc EXCEPT !.string = p.string,
                         !.x2 = p.vals[3], !.y2 = p.vals[4],
                         !.x3 = p.vals[5], !.y3 = p.vals[6]],
              c, name, p.vals)

curve_command(sc, c, name) == curve_emit(sc, c, name, points(sc.string, 3))

\* h, H, v, V: one number cut off the string at its first blank
axis_emit(sc, c, n, rest) ==
    IF n.tag \notin {"int", "float", "None"} THEN Raise(sc, c, <<>>, n.tag)
    ELSE CASE sc.letter = <<"h">> ->
                emit([sc EXCEPT !.string = rest], c, "rel_line_to", <<n, Int0>>)
           [] sc.letter = <<"H">> ->
                emit([sc EXCEPT !.string = rest], c, "line_to",
                     <<n, Float(c.point[2])>>)
           [] sc.letter = <<"v">> ->
                emit([sc EXCEPT !.string = rest], c, "rel_line_to", <<Int0, n>>)
           [] sc.letter = <<"V">> ->
                emit([sc EXCEPT !.string = rest], c, "line_to",
                     <<Float(c.point[1]), n>>)

axis_parts(sc, c, parts) ==
    IF Len(parts) # 2 THEN Raise(sc, c, <<>>, "ValueError")
    ELSE axis_emit(sc, c, size(parts[1]), parts[2])

axis_command(sc, c) == axis_parts(sc, c, splitn(sc.string, " ", 1))

\* the first control point of s (relative) and S (absolute)
smooth_control(sc, c) ==
    IF contains(sc.last_letter,
                IF sc.letter = <<"s">> THEN <<"c", "s">> ELSE <<"C", "S">>)
    THEN <<Float(RSub(sc.x3.val, sc.x2.val)), Float(RSub(sc.y3.val, sc.y2.val))>>
    ELSE IF sc.letter = <<"s">> THEN <<Int0, Int0>>
    ELSE <<Float(c.point[1]), Float(c.point[2])>>

\* s, S
smooth_emit(sc, c, name, first, p) ==
    IF p.tag # "ok" THEN Raise(sc, c, <<>>, p.tag)
    ELSE emit([sc EXCEPT !.string = p.string,
                         !.x2 = p.vals[1], !.y2 = p.vals[2],
                         !.x3 = p.vals[3], !.y3 = p.vals[4]],
              c, name, first \o p.vals)

smooth_command(sc, c, name) ==
    IF sc.last_letter = None THEN Raise(sc, c, <<>>, "TypeError")
    ELSE smooth_emit(sc, c, name, smooth_control(sc, c), points(sc.string, 2))

\* t, T: x2, y2 are the reflected control point, p the end point read
smooth_quadratic_draw(sc, c, name, x2, y2, p, q) ==
    [scan |-> [sc EXCEPT !.string = p.string,
                         !.x2 = Float(x2), !.y2 = Float(y2),
                         !.x3 = p.vals[1], !.y3 = p.vals[2]],
     context |-> draw_to(c, name, q),
     calls |-> <<Op(name, q)>>]

smooth_quadratic_emit(sc, c, name, x1, y1, x2, y2, p) ==
    IF p.tag # "ok" THEN Raise(sc, c, <<>>, p.tag)
    ELSE IF ~IsNumber(p.vals[1]) \/ ~IsNumber(p.vals[2])
    THEN Raise(sc, c, <<>>, "TypeError")
    ELSE smooth_quadratic_draw(sc, c, name, x2, y2, p,
             quadratic_points(x1, y1, x2, y2, p.vals[1].val, p.vals[2].val))

smooth_quadratic_from(sc, c, name, x1, y1) ==
    IF Arith(sc.x2) # "ok" THEN Raise(sc, c, <<>>, Arith(sc.x2))
    ELSE IF Arith(sc.y2) # "ok" THEN Raise(sc, c, <<>>, Arith(sc.y2))
    ELSE smooth_quadratic_emit(sc, c, name, x1, y1,
                               RSub(RMul(R(2), x1), sc.x2.val),
                               RSub(RMul(R(2), y1), sc.y2.val),
                               points(sc.string, 1))

smooth_quadratic_command(sc, c, name) ==
    IF sc.letter = <<"t">>
    THEN smooth_quadratic_from(sc, c, name, R(0), R(0))
    ELSE smooth_quadratic_from(sc, c, name, c.point[1], c.point[2])

\* the inner "while string" of q and Q; x1, y1 are set once, before it
RECURSIVE quadratic_loop(_, _, _, _, _, _)
quadratic_draw(sc, c, calls, x1, y1, name, p, q) ==
    quadratic_loop([sc EXCEPT !.string = p.string,
                              !.x2 = p.vals[1], !.y2 = p.vals[2],
                              !.x3 = p.vals[3], !.y3 = p.vals[4]],
                   draw_to(c, name, q), Append(calls, Op(name, q)),
                   x1, y1, name)

quadratic_emit(sc, c, calls, x1, y1, name, p) ==
    IF p.tag # "ok" THEN Raise(sc, c, calls, p.tag)
    ELSE IF \E i \in 1..4 : ~IsNumber(p.vals[i]) THEN Raise(sc, c, calls, "TypeError")
    ELSE quadratic_draw(sc, c, calls, x1, y1, name, p,
             quadratic_points(x1, y1, p.vals[1].val, p.vals[2].val,
                              p.vals[3].val, p.vals[4].val))

quadratic_loop(sc, c, calls, x1, y1, name) ==
    IF sc.string = <<>> THEN [scan |-> sc, context |-> c, calls |-> calls]
    ELSE quadratic_emit(sc, c, calls, x1, y1, name, points(sc.string, 2))

\* string = "t" + next_string (for q) or "T" + next_string (for Q)
quadratic_rest(done, rest) ==
    IF done.scan.state = "raised" THEN done
    ELSE [done EXCEPT !.scan.string = rest]

\* q, Q: the operands end at the next "t" (for q) or "T" (for Q)
quadratic_parts(sc, c, name, mark, parts, x1, y1) ==
    IF Len(parts) # 2 THEN Raise(sc, c, <<>>, "ValueError")
    ELSE quadratic_rest(quadratic_loop([sc EXCEPT !.string = parts[1]], c, <<>>,
                                       x1, y1, name),
                        <<mark>> \o parts[2])

quadratic_command(sc, c, name) ==
    IF sc.letter = <<"q">>
    THEN quadratic_parts(sc, c, name, "t", splitn(sc.string, "t", 1), R(0), R(0))
    ELSE quadratic_parts(sc, c, name, "T", splitn(sc.string, "T", 1),
                         c.point[1], c.point[2])

\* int(s) of a string without blanks: a sign and digits
int10_digits(neg, u) ==
    IF isdigit(u)
    THEN [tag |-> "int", val |-> IF neg THEN -NatOf(u, 10) ELSE NatOf(u, 10)]
    ELSE [tag |-> "ValueError", val |-> 0]

int10(s) ==
    int10_digits(s # <<>> /\ Head(s) = "-",
                 IF s # <<>> /\ Head(s) \in {"-", "+"} THEN Tail(s) ELSE s)

\* The geometry of one arc, from "Cancel the rotation of the second point"
\* to "Update the x radius if it is too small", in squares: the square of
\* the distance xe of the reduced end point and the square of the rx that
\* is passed to context.arc.  Exact for a rotation of quarter turns.
\* the radius passed on as it was supplied, however long the chord is
arc_radius_unchanged(rx, rotation, xe_squared) ==
    [exact |-> rotation.d = 1 /\ rotation.n % 90 = 0,
     xe_squared |-> xe_squared,
     rx_squared |-> RMul(rx, rx)]

arc_radius_max(rx, rotation, xe_squared) ==
    [exact |-> rotation.d = 1 /\ rotation.n % 90 = 0,
     xe_squared |-> xe_squared,
     rx_squared |-> IF RLt(rx, R(0)) \/ RLt(RMul(R(4), RMul(rx, rx)), xe_squared)
                    THEN RDiv(xe_squared, R(4))
                    ELSE RMul(rx, rx)]

arc_radius_reduced(rx, rotation, xe, ye) ==
    arc_radius_max(rx, rotation, RAdd(RMul(xe, xe), RMul(ye, ye)))

arc_radius_rotated(rx, radii_ratio, rotation, e) ==
    arc_radius_reduced(rx, rotation, e[1], RDiv(e[2], radii_ratio))

arc_radius(rx, radii_ratio, rotation, x3, y3) ==
    arc_radius_rotated(rx, radii_ratio, rotation,
                       rotate(x3, y3, -(rotation.n \div 90)))

\* a, A.  The arc is drawn between save() and restore(), which leave the
\* matrix as it was; the current point moves to where the arc ends, taken
\* to be the end point given.
arc_draw(sc, c, rx, radii_ratio, rotation, sweep, rest, x3, y3) ==
    [scan |-> [sc EXCEPT !.string = rest, !.x3 = Float(x3), !.y3 = Float(y3)],
     context |-> [c EXCEPT !.point = add_point(c.point, x3, y3)],
     calls |-> << Op("save", <<>>),
                  Op("translate", <<c.point[1], c.point[2]>>),
                  Op("rotate", <<rotation>>),
                  Op("scale", <<R(1), radii_ratio>>),
                  Op(IF sweep # 0 THEN "arc" ELSE "arc_negative",
                     arc_radius(rx, radii_ratio, rotation, x3, y3)),
                  Op("restore", <<>>) >>]

arc_end(sc, c, rx, radii_ratio, rotation, large, sweep, end) ==
    IF "ValueError" \in {rotation.tag, large.tag, sweep.tag}
    THEN Raise(sc, c, <<>>, "ValueError")
    ELSE IF end.tag # "ok" THEN Raise(sc, c, <<>>, end.tag)
    ELSE IF ~IsNumber(end.x) \/ ~IsNumber(end.y) THEN Raise(sc, c, <<>>, "TypeError")
    ELSE IF radii_ratio.n = 0 THEN Raise(sc, c, <<>>, "ZeroDivisionError")
    ELSE IF sc.letter = <<"A">>
    THEN arc_draw(sc, c, rx, radii_ratio, rotation.val, sweep.val, end.string,
                  RSub(end.x.val, c.point[1]), RSub(end.y.val, c.point[2]))
    ELSE arc_draw(sc, c, rx, radii_ratio, rotation.val, sweep.val, end.string,
                  end.x.val, end.y.val)

arc_flags(sc, c, rx, radii_ratio, parts) ==
    IF Len(parts) # 4 THEN Raise(sc, c, <<>>, "ValueError")
    ELSE arc_end(sc, c, rx, radii_ratio,
                 float(parts[1]), int10(parts[2]), int10(parts[3]), point(parts[4]))

arc_radii(sc, c, radii) ==
    IF radii.tag # "ok" THEN Raise(sc, c, <<>>, radii.tag)
    ELSE IF ~IsNumber(radii.x) \/ ~IsNumber(radii.y) THEN Raise(sc, c, <<>>, "TypeError")
    ELSE IF radii.x.val.n = 0 THEN Raise(sc, c, <<>>, "ZeroDivisionError")
    ELSE arc_flags(sc, c, radii.x.val, RDiv(radii.y.val, radii.x.val),
                   splitn(radii.string, " ", 3))

arc_command(sc, c) == arc_radii(sc, c, point(sc.string))

\* the branch of the active letter
command(sc, c) ==
    IF contains(sc.letter, <<"a", "A">>) THEN arc_command(sc, c)
    ELSE CASE sc.letter = <<"c">> -> curve_command(sc, c, "rel_curve_to")
           [] sc.letter = <<"C">> -> curve_command(sc, c, "curve_to")
           [] sc.letter \in {<<"h">>, <<"H">>, <<"v">>, <<"V">>} -> axis_command(sc, c)
           [] sc.letter = <<"l">> -> point_command(sc, c, "rel_line_to")
           [] sc.letter = <<"L">> -> point_command(sc, c, "line_to")
           [] sc.letter = <<"m">> -> point_command(sc, c, "rel_move_to")
           [] sc.letter = <<"M">> -> point_command(sc, c, "move_to")
           [] sc.letter = <<"q">> -> quadratic_command(sc, c, "rel_curve_to")
           [] sc.letter = <<"Q">> -> quadratic_command(sc, c, "curve_to")
           [] sc.letter = <<"s">> -> smooth_command(sc, c, "rel_curve_to")
           [] sc.letter = <<"S">> -> smooth_command(sc, c, "curve_to")
           [] sc.letter = <<"t">> -> smooth_quadratic_command(sc, c, "rel_curve_to")
           [] sc.letter = <<"T">> -> smooth_quadratic_command(sc, c, "curve_to")
           [] contains(sc.letter, <<"z", "Z">>) -> emit(sc, c, "close_path", <<>>)
           [] OTHER -> Raise(sc, c, <<>>, "NotImplementedError")

\* the letter the iteration runs and the string it runs on: a leading
\* token that is (part of) PATH_LETTERS replaces the letter
take_letter(sc, string, parts) ==
    IF contains(splitn(string, " ", 1)[1], PATH_LETTERS)
    THEN [sc EXCEPT !.letter = parts[1], !.string = parts[2]]
    ELSE [sc EXCEPT !.string = string]

stripped_letter(sc, string) ==
    take_letter(sc, string, splitn(string \o <<" ">>, " ", 1))

next_letter(sc) == stripped_letter(sc, strip(sc.string, WhiteSpace))

\* "last_letter = letter", "string = string.strip()" and the loop's test
end_iteration(done, string) ==
    IF done.scan.state = "raised" THEN done
    ELSE [done EXCEPT !.scan.last_letter = done.scan.letter,
                      !.scan.string = string,
                      !.scan.state = IF string = <<>> THEN "returned" ELSE "loop"]

strip_iteration(done) == end_iteration(done, strip(done.scan.string, WhiteSpace))

\* one pass of the body of "while string", and the test that follows it
iteration(sc, c) == strip_iteration(command(next_letter(sc), c))

\* the statements of path() before the loop, and the first test of the loop
begin_path(d) ==
    LET string == normalize(pad_letters(d))
    IN  [state |-> IF string = <<>> THEN "returned" ELSE "loop",
         string |-> string,
         letter |-> <<PATH_LETTERS[Len(PATH_LETTERS)]>>,
         last_letter |-> None,
         x2 |-> Unbound, y2 |-> Unbound, x3 |-> Unbound, y3 |-> Unbound,
         error |-> "none"]

(***************************************************************************)
(* Values of the variables a specification does not use.                   *)
(***************************************************************************)
NoCall == [fn |-> "none"]
Pending == [tag |-> "pending"]
NoScan == [state |-> "idle"]
NoTree == <<>>
NoReturn == [node |-> 0]

(***************************************************************************)
(* SpecSize: size() applied to numbers with and without a unit.            *)
(***************************************************************************)
MaxDigits == 2

SizeDigits == {"0", "1", "2", "7"}

SizeNumbers ==
    UNION {[1..k -> SizeDigits] : k \in 1..MaxDigits}

SizeSuffixes ==
    {<<>>, <<" ">>, <<"L">>} \cup {UNITS[i].unit : i \in 1..Len(UNITS)}

SizeInputs ==
    {<<>>} \cup
    {sign \o number \o fraction \o suffix :
        sign \in {<<>>, <<"-">>}, number \in SizeNumbers,
        fraction \in {<<>>, <<".", "5">>}, suffix \in SizeSuffixes}

InitSize ==
    /\ call \in {[fn |-> "size", string |-> s] : s \in SizeInputs}
    /\ result = Pending
    /\ context = NewContext
    /\ ops = <<>>
    /\ scan = NoScan
    /\ tree = NoTree
    /\ frames = <<>>
    /\ returned = NoReturn

Size ==
    /\ call.fn = "size"
    /\ result = Pending
    /\ result' = size(call.string)
    /\ UNCHANGED <<call, context, ops, scan, tree, frames, returned>>

NextSize == Size

SpecSize == InitSize /\ [][NextSize]_vars

(***************************************************************************)
(* SpecColor: color() applied to every string over a small alphabet and    *)
(* to the forms the grammar names.                                         *)
(***************************************************************************)
MaxColorLen == 9

ColorChars == {"#", "f", "g"}

ColorLiterals ==
    { <<"n", "o", "n", "e">>, <<"r", "e", "d">>, <<"R", "e", "d">>,
      <<" ", "#", "F", "f", "f", " ">>,
      <<"#", "0", "0", "0", "0", "0", "0", "8", "0">>,
      <<"#", "1", "2", "3", "4", "5", "6", "7">>,
      <<"#", "1", "2", "3", "4", "5">>,
      <<"#", "1", "2", "3", "4", "5", "6", "7", "8", "9", "a">>,
      <<"r", "g", "b", "(", "1", ",", "0", ",", "0", ")">>,
      <<"r", "g", "b", "a", "(", "0", ",", "0", ",", "0", ",", "0", ".", "5", ")">>,
      <<"r", "g", "b", "(", "1", ",", "0", ")">> }

ColorInputs ==
    ColorLiterals \cup UNION {[1..k -> ColorChars] : k \in 0..MaxColorLen}

InitColor ==
    /\ call \in {[fn |-> "color", string |-> s, opacity |-> o] :
                    s \in ColorInputs, o \in {R(1), Frac(1, 2)}}
    /\ result = Pending
    /\ context = NewContext
    /\ ops = <<>>
    /\ scan = NoScan
    /\ tree = NoTree
    /\ frames = <<>>
    /\ returned = NoReturn

Color ==
    /\ call.fn = "color"
    /\ result = Pending
    /\ result' = color(call.string, call.opacity)
    /\ UNCHANGED <<call, context, ops, scan, tree, frames, returned>>

NextColor == Color

SpecColor == InitColor /\ [][NextColor]_vars

(***************************************************************************)
(* SpecFit: _set_context_size() on a new context, for small targets and    *)
(* viewBoxes and for the two documented examples.                          *)
(***************************************************************************)
MaxTarget == 3
MaxBox == 3
MaxOrigin == 1

FitExamples ==
    { [fn |-> "_set_context_size", width |-> R(100), height |-> R(100),
       viewbox |-> <<R(0), R(0), R(200), R(100)>>],
      [fn |-> "_set_context_size", width |-> R(100), height |-> R(100),
       viewbox |-> <<R(0), R(0), R(100), R(200)>>] }

FitInputs ==
    FitExamples \cup
    {[fn |-> "_set_context_size", width |-> R(w), height |-> R(h), viewbox |-> v] :
        w \in 1..MaxTarget, h \in 1..MaxTarget,
        v \in {<<>>} \cup
              {<<R(x), R(y), R(xs), R(ys)>> :
                  x \in (-MaxOrigin)..MaxOrigin, y \in (-MaxOrigin)..MaxOrigin,
                  xs \in 0..MaxBox, ys \in 0..MaxBox}}

InitFit ==
    /\ call \in FitInputs
    /\ result = Pending
    /\ context = NewContext
    /\ ops = <<>>
    /\ scan = NoScan
    /\ tree = NoTree
    /\ frames = <<>>
    /\ returned = NoReturn

SetContextSize ==
    /\ call.fn = "_set_context_size"
    /\ result = Pending
    /\ LET r == _set_context_size(context, call.width, call.height, call.viewbox)
       IN  /\ result' = [tag |-> r.tag]
           /\ context' = r.context
           /\ ops' = ops \o r.calls
    /\ UNCHANGED <<call, scan, tree, frames, returned>>

NextFit == SetContextSize

SpecFit == InitFit /\ [][NextFit]_vars

(***************************************************************************)
(* SpecPath: path() on a node whose d attribute is an optional "M3,6"      *)
(* followed by up to two commands, each a letter with up to MaxGroups      *)
(* operand groups and up to MaxExtra numbers more, and on the documented   *)
(* examples.  The context is the one draw() hands over: the current point  *)
(* set by its move_to(0, 0).                                               *)
(* One call of path() makes at most MaxOps calls on the context: its loop  *)
(* need not end.                                                           *)
(***************************************************************************)
MaxGroups == 2
MaxExtra == 1
MaxOps == 26

\* the numbers the operands are taken from, in turn
Numbers ==
    << <<"3">>, <<"6">>, <<"9">>, <<"1">>, <<"-", "2">>, <<"5">>, <<"8">>,
       <<"4">>, <<"7">>, <<"-", "6">>, <<"1", "0">>, <<"2">>, <<"1", "2">>,
       <<"-", "1">>, <<"1", "1">>, <<"1", "3">> >>

\* n numbers from the first-th on: "x,y x,y ..."
RECURSIVE operands(_, _, _)
operands(first, n, pos) ==
    IF n = 0 THEN <<>>
    ELSE Numbers[((first - 1) % Len(Numbers)) + 1]
            \o (IF n = 1 THEN <<>> ELSE IF pos % 2 = 1 THEN <<",">> ELSE <<" ">>)
            \o operands(first + 1, n - 1, pos + 1)

GroupSize(letter) ==
    CASE letter \in {"z", "Z"} -> 0
      [] letter \in {"h", "H", "v", "V"} -> 1
      [] letter \in {"m", "M", "l", "L", "t", "T"} -> 2
      [] letter \in {"s", "S", "q", "Q"} -> 4
      [] letter \in {"c", "C"} -> 6

\* operand groups of an arc: rx ry rotation large sweep x y
ArcGroups ==
    { <<"3", " ", "3", " ", "0", " ", "0", " ", "1", " ", "6", ",", "6">>,
      <<"0", " ", "3", " ", "0", " ", "0", " ", "1", " ", "6", ",", "6">>,
      <<"3", " ", "0", " ", "0", " ", "1", " ", "0", " ", "6", ",", "6">>,
      <<"3", ",", "6", " ", "9", "0", " ", "1", " ", "1", " ", "9", "-", "6">>,
      <<"8", " ", "4", " ", "0", " ", "0", " ", "1", " ", "6", ",", "6">>,
      <<"2", " ", "3", " ", "2", "7", "0", " ", "0", " ", "0", " ", "4", ",", "2">> }

ArcOperands ==
    {<<>>} \cup ArcGroups
    \cup {g \o <<" ", "1", " ", "2", " ", "0", " ", "0", " ", "0", " ", "4", " ", "2">> :
             g \in IF MaxGroups >= 2 THEN ArcGroups ELSE {}}

Commands(first) ==
    {<<letter>> \o operands(first, k * GroupSize(letter) + extra, 1) :
        letter \in Chars(PATH_LETTERS) \ {"a", "A"},
        k \in 0..MaxGroups, extra \in 0..MaxExtra}
    \cup
    {<<letter>> \o g \o (IF extra = 0 THEN <<>> ELSE <<" ">> \o Numbers[first]) :
        letter \in {"a", "A"}, g \in ArcOperands, extra \in 0..MaxExtra}

PathExamples ==
    { <<"M", "0", ",", "0", " ", "L", "1", "0", ",", "1", "0", " ", "Z">>,
      <<"M", "0", ",", "0", " ", "h", "1", "0", " ", "2", "0">>,
      <<"M", "0", ",", "0", " ", "Q", "5", ",", "1", "0", " ", "1", "0", ",", "0">>,
      <<"M", "0", ",", "0", " ", "Z", " ", "1", "0">> }

PathInputs ==
    PathExamples \cup
    {prefix \o first \o second :
        prefix \in {<<>>, <<"M", "3", ",", "6">>},
        first \in Commands(1),
        second \in {<<>>} \cup Commands(8)}

InitPath ==
    /\ call \in {[fn |-> "path", d |-> d] : d \in PathInputs}
    /\ result = Pending
    /\ context = NewContext
    /\ ops = <<>>
    /\ scan = NoScan
    /\ tree = NoTree
    /\ frames = <<>>
    /\ returned = NoReturn

\* path(node) up to the first test of "while string"
PathBegin ==
    /\ call.fn = "path"
    /\ scan = NoScan
    /\ scan' = begin_path(call.d)
    /\ UNCHANGED <<call, result, context, ops, tree, frames, returned>>

\* one iteration of "while string"
PathIteration ==
    /\ scan.state = "loop"
    /\ result = Pending
    /\ Len(ops) - (IF frames = <<>> THEN 0 ELSE frames[Len(frames)].entry) < MaxOps
    /\ LET done == iteration(scan, context)
       IN  /\ scan' = done.scan
           /\ context' = done.context
           /\ ops' = ops \o done.calls
    /\ UNCHANGED <<call, result, tree, frames, returned>>

NextPath == PathBegin \/ PathIteration

SpecPath == InitPath /\ [][NextPath]_vars

(***************************************************************************)
(* The scene walker, Surface.draw, with the handlers ellipse, path and     *)
(* use.  A node is a record of its tag, its root flag, the attributes the  *)
(* walker reads and its children; an attribute that is absent is the empty *)
(* string.  frames is the stack of the active draw() calls: each with its  *)
(* node, the place it has reached, the number of children drawn, and the   *)
(* length of the call log when it was entered.                             *)
(***************************************************************************)
PATH_TAGS == {"circle", "line", "path", "polyline", "polygon", "rect"}

Absent == <<>>
EvenOdd == <<"e", "v", "e", "n", "o", "d", "d">>
NoHref == [tag |-> "none"]

\* a node without attributes and without children
Node(tag) ==
    [tag |-> tag, root |-> FALSE, fill_rule |-> Absent, d |-> Absent,
     rx |-> Absent, ry |-> Absent, width |-> Absent, height |-> Absent,
     viewBox |-> Absent, href |-> NoHref, children |-> <<>>]

\* Tree(href, node): the referenced node, marked as a root
Tree(node) == [node EXCEPT !.root = TRUE]

\* "width or viewbox[2]"
or_else(value, other) == IF value.n # 0 THEN value ELSE other

node_format_box(width, height, viewbox) ==
    [width |-> or_else(width, viewbox[3]),
     height |-> or_else(height, viewbox[4]),
     viewbox |-> viewbox]

node_format_parts(width, height, parts) ==
    node_format_box(width, height, [i \in 1..Len(parts) |-> size(parts[i]).val])

node_format(node) ==
    IF node.viewBox = Absent
    THEN [width |-> size(node.width).val, height |-> size(node.height).val,
          viewbox |-> <<>>]
    ELSE node_format_parts(size(node.width).val, size(node.height).val,
                           split(node.viewBox, " "))

Frame(node, entry) == [node |-> node, pc |-> "enter", child |-> 0, entry |-> entry]
Top == frames[Len(frames)]
Drawing(pc) == result = Pending /\ frames # <<>> /\ Top.pc = pc
Goto(pc) == [frames EXCEPT ![Len(frames)].pc = pc]
Raised(exception) == [tag |-> exception]

\* Surface.__init__: self.draw(tree)
DrawCall ==
    /\ call.fn = "draw"
    /\ result = Pending
    /\ frames = <<>>
    /\ returned = NoReturn
    /\ frames' = <<Frame(tree, Len(ops))>>
    /\ UNCHANGED <<call, result, context, ops, scan, tree, returned>>

\* the return of the draw() call on top of the stack
Return ==
    /\ frames' = SubSeq(frames, 1, Len(frames) - 1)
    /\ returned' = [node |-> Top.node, entry |-> Top.entry, exit |-> Len(ops')]
    /\ result' = IF Len(frames) = 1 THEN Raised("None") ELSE result

\* "if node.tag == 'defs': return"
DrawDefs ==
    /\ Drawing("enter")
    /\ Top.node.tag = "defs"
    /\ ops' = ops
    /\ Return
    /\ UNCHANGED <<call, context, scan, tree>>

\* context.save() and context.move_to(size(x), size(y)); the nodes have no
\* x, no y and no transform
DrawEnter ==
    /\ Drawing("enter")
    /\ Top.node.tag # "defs"
    /\ context' = draw_to(save(context), "move_to", <<size(Absent).val, size(Absent).val>>)
    /\ ops' = ops \o << Op("save", <<>>),
                        Op("move_to", <<size(Absent).val, size(Absent).val>>) >>
    /\ frames' = Goto("handler")
    /\ UNCHANGED <<call, result, scan, tree, returned>>

\* "if hasattr(self, node.tag)" fails: no handler for this tag
DrawNoHandler ==
    /\ Drawing("handler")
    /\ Top.node.tag \notin {"ellipse", "path", "use"}
    /\ frames' = Goto("paint")
    /\ UNCHANGED <<call, result, context, ops, scan, tree, returned>>

\* Surface.ellipse for a node without x, y, cx and cy; the arc ends where
\* it starts, at (rx, 0).  rx = 0 fails the division; ry = 0 reaches
\* context.scale(1, 0), which cairo refuses.
ellipse_calls(rx, yscale_ratio) ==
    << Op("new_sub_path", <<>>),
       Op("save", <<>>),
       Op("scale", <<R(1), yscale_ratio>>),
       Op("arc", [xc |-> R(0), yc |-> RDiv(R(0), yscale_ratio), radius |-> rx,
                  turns |-> 1]),
       Op("restore", <<>>) >>

ellipse_sizes(rx, ry) ==
    IF "TypeError" \in {rx.tag, ry.tag} \/ "None" \in {rx.tag, ry.tag}
    THEN [tag |-> "TypeError", calls |-> <<>>]
    ELSE IF "ValueError" \in {rx.tag, ry.tag}
    THEN [tag |-> "ValueError", calls |-> <<>>]
    ELSE IF rx.val.n = 0 THEN [tag |-> "ZeroDivisionError", calls |-> <<>>]
    ELSE IF ry.val.n = 0
    THEN [tag |-> "cairo.Error",
          calls |-> << Op("new_sub_path", <<>>), Op("save", <<>>),
                       Op("scale", <<R(1), R(0)>>) >>]
    ELSE [tag |-> "ok", calls |-> ellipse_calls(rx.val, RDiv(ry.val, rx.val))]

ellipse(node) == ellipse_sizes(size(node.rx), size(node.ry))

DrawEllipse ==
    /\ Drawing("handler")
    /\ Top.node.tag = "ellipse"
    /\ ops' = ops \o ellipse(Top.node).calls
    /\ IF ellipse(Top.node).tag = "ok"
       THEN /\ context' = [context EXCEPT !.point = <<size(Top.node.rx).val, R(0)>>]
            /\ frames' = Goto("paint")
            /\ result' = result
       ELSE /\ context' = IF ellipse(Top.node).calls = <<>> THEN context
                          ELSE save(context)
            /\ frames' = frames
            /\ result' = Raised(ellipse(Top.node).tag)
    /\ UNCHANGED <<call, scan, tree, returned>>

\* Surface.path up to the first test of its loop
DrawPath ==
    /\ Drawing("handler")
    /\ Top.node.tag = "path"
    /\ scan' = begin_path(Top.node.d)
    /\ frames' = Goto("path")
    /\ UNCHANGED <<call, result, context, ops, tree, returned>>

\* Surface.path returns
PathReturn ==
    /\ Drawing("path")
    /\ scan.state = "returned"
    /\ scan' = NoScan
    /\ frames' = Goto("paint")
    /\ UNCHANGED <<call, result, context, ops, tree, returned>>

\* Surface.path raises: the exception leaves every draw() on the stack
PathRaise ==
    /\ Drawing("path")
    /\ scan.state = "raised"
    /\ result' = Raised(scan.error)
    /\ UNCHANGED <<call, context, ops, scan, tree, frames, returned>>

\* Surface.use up to its call of draw(tree); the node has no x and no y
use_fit(c, format) ==
    _set_context_size(c, format.width, format.height, format.viewbox)

UseCall ==
    /\ Drawing("handler")
    /\ Top.node.tag = "use"
    /\ LET fit == use_fit(translate(save(context), size(Absent).val, size(Absent).val),
                          node_format(Tree(Top.node.href)))
       IN  /\ context' = fit.context
           /\ ops' = ops \o << Op("save", <<>>),
                               Op("translate", <<size(Absent).val, size(Absent).val>>) >>
                         \o fit.calls
           /\ IF fit.tag = "None"
              THEN /\ frames' = Append(Goto("use"), Frame(Tree(Top.node.href), Len(ops')))
                   /\ result' = result
              ELSE /\ frames' = frames
                   /\ result' = Raised(fit.tag)
    /\ UNCHANGED <<call, scan, tree, returned>>

\* context.restore() n times, as far as there are saved states to restore
RECURSIVE restores(_, _)
restores(c, n) ==
    IF n = 0 \/ c.saved = <<>> THEN [context |-> c, calls |-> <<>>, left |-> n]
    ELSE [restores(restore(c), n - 1) EXCEPT !.calls = <<Op("restore", <<>>)>> \o @]

\* Surface.use after draw(tree) has returned: it restores twice
UseReturn ==
    /\ Drawing("use")
    /\ LET done == restores(context, 2)
       IN  /\ context' = done.context
           /\ ops' = ops \o done.calls
           /\ IF done.left = 0
              THEN frames' = Goto("paint") /\ result' = result
              ELSE frames' = frames /\ result' = Raised("cairo.Error")
    /\ UNCHANGED <<call, scan, tree, returned>>

\* the fill and the stroke of a node without opacity, fill, stroke and
\* stroke-width attributes: a path tag gets the stroke width "1"
stroke_width(node) == IF node.tag \in PATH_TAGS THEN <<"1">> ELSE Absent

\* the same calls with a fill that does not keep the path for the stroke
paint_calls_without_path(node) ==
    (IF node.fill_rule = EvenOdd
     THEN <<Op("set_fill_rule", <<"EVEN_ODD">>)>> ELSE <<>>)
    \o << Op("set_source_rgba", color(Absent, R(1)).val),
          Op("fill", <<>>),
          Op("set_line_width", <<size(stroke_width(node)).val>>),
          Op("set_source_rgba", color(Absent, R(1)).val),
          Op("stroke", <<>>) >>

paint_calls(node) ==
    (IF node.fill_rule = EvenOdd
     THEN <<Op("set_fill_rule", <<"EVEN_ODD">>)>> ELSE <<>>)
    \o << Op("set_source_rgba", color(Absent, R(1)).val),
          Op("fill_preserve", <<>>),
          Op("set_line_width", <<size(stroke_width(node)).val>>),
          Op("set_source_rgba", color(Absent, R(1)).val),
          Op("stroke", <<>>) >>

DrawPaint ==
    /\ Drawing("paint")
    /\ context' = IF Top.node.fill_rule = EvenOdd
                  THEN [context EXCEPT !.fill_rule = "EVEN_ODD"]
                  ELSE context
    /\ ops' = ops \o paint_calls(Top.node)
    /\ frames' = Goto("children")
    /\ UNCHANGED <<call, result, scan, tree, returned>>

\* "for child in node.children: self.draw(child)"
DrawChild ==
    /\ Drawing("children")
    /\ Top.child < Len(Top.node.children)
    /\ frames' = Append([frames EXCEPT ![Len(frames)].child = @ + 1],
                        Frame(Top.node.children[Top.child + 1], Len(ops)))
    /\ UNCHANGED <<call, result, context, ops, scan, tree, returned>>

\* "if not node.root: self.context.restore()", and the return
DrawReturn ==
    /\ Drawing("children")
    /\ Top.child = Len(Top.node.children)
    /\ IF Top.node.root
       THEN /\ context' = context
            /\ ops' = ops
            /\ Return
       ELSE IF context.saved = <<>>
       THEN /\ result' = Raised("cairo.Error")
            /\ UNCHANGED <<context, ops, frames, returned>>
       ELSE /\ context' = restore(context)
            /\ ops' = Append(ops, Op("restore", <<>>))
            /\ Return
    /\ UNCHANGED <<call, scan, tree>>

(***************************************************************************)
(* SpecDraw: draw() on a root with up to MaxChildren children, each a      *)
(* shape, a use of another document, or a group or a defs with at most one *)
(* child; the fill-rule attribute is absent or "evenodd".                  *)
(***************************************************************************)
MaxChildren == 2

PathNode(d, rule) == [Node("path") EXCEPT !.d = d, !.fill_rule = rule]
EllipseNode(rx, ry) == [Node("ellipse") EXCEPT !.rx = rx, !.ry = ry]
UseNode(document) == [Node("use") EXCEPT !.href = document]
Group(tag, rule, children) ==
    [Node(tag) EXCEPT !.fill_rule = rule, !.children = children]

LinePath == <<"M", "1", ",", "1", " ", "L", "2", ",", "2", " ", "Z">>
ArcPath ==
    <<"M", "0", ",", "0", " ", "A", "3", ",", "3", " ", "0", " ", "0", " ", "1",
      " ", "6", ",", "6">>
RepeatPath == <<"M", "0", ",", "0", " ", "h", "1", "0", " ", "2", "0">>

\* the documents a use refers to: an svg with a viewBox, and a defs
Referenced ==
    { [Node("svg") EXCEPT !.width = <<"2">>, !.height = <<"4">>,
                          !.viewBox = <<"0", " ", "0", " ", "1", " ", "1">>,
                          !.fill_rule = EvenOdd,
                          !.children = <<PathNode(LinePath, Absent)>>],
      Node("defs") }

Shapes ==
    {PathNode(LinePath, rule) : rule \in {Absent, EvenOdd}}
    \cup {PathNode(ArcPath, Absent), EllipseNode(<<"3">>, <<"2">>)}
    \cup {UseNode(document) : document \in Referenced}

Failing == {PathNode(RepeatPath, Absent), EllipseNode(<<"0">>, <<"2">>)}

Groups ==
    {Group("g", rule, children) :
        rule \in {Absent, EvenOdd},
        children \in {<<>>} \cup {<<shape>> : shape \in Shapes}}
    \cup {Group("defs", Absent, <<PathNode(LinePath, Absent)>>)}

RECURSIVE Sequences(_, _)
Sequences(S, n) ==
    IF n = 0 THEN {<<>>}
    ELSE Sequences(S, n - 1)
         \cup {Append(q, x) : q \in Sequences(S, n - 1), x \in S}

Documents ==
    {Tree(Group("svg", rule, children)) :
        rule \in {Absent, EvenOdd},
        children \in Sequences(Shapes \cup Failing \cup Groups, MaxChildren)}

InitDraw ==
    /\ tree \in Documents
    /\ call = [fn |-> "draw"]
    /\ result = Pending
    /\ context = NewContext
    /\ ops = <<>>
    /\ scan = NoScan
    /\ frames = <<>>
    /\ returned = NoReturn

NextDraw ==
    \/ DrawCall \/ DrawDefs \/ DrawEnter \/ DrawNoHandler \/ DrawEllipse
    \/ DrawPath \/ PathIteration \/ PathReturn \/ PathRaise
    \/ UseCall \/ UseReturn \/ DrawPaint \/ DrawChild \/ DrawReturn

SpecDraw == InitDraw /\ [][NextDraw]_vars

(***************************************************************************)
(* Claims about the value parser, the colour parser and the viewport       *)
(* fitter.                                                                 *)
(***************************************************************************)
SizeReturned == call.fn = "size" /\ result # Pending

\* C9, as amended: size() multiplies the number by DPI times the unit's
\* coefficient, so size("1in") = 72.0 and size("72pt") = 72 * (72 * (1/72))
\* = 72.0; the empty string gives 0 and the bare number "10" gives 10.0.
C9_SizeTimesDpiCoefficient ==
    SizeReturned =>
        /\ call.string = <<"1", "i", "n">> => result = Float(R(72))
        /\ call.string = <<"7", "2", "p", "t">> => result = Float(R(72))
        /\ call.string = <<>> => result = [tag |-> "int", val |-> R(0)]
        /\ call.string = <<"1", "0">> => result = Float(R(10))
        /\ \A number \in SizeNumbers, i \in 1..Len(UNITS) :
              /\ UNITS[i].coefficient.tag = "num"
              /\ call.string = number \o UNITS[i].unit
              => result = Float(RMul(R(NatOf(number, 10)),
                                     RMul(R(DPI), UNITS[i].coefficient.val)))

\* C9 witness: size("72pt") has returned 72.0.
C9_Witness ==
    /\ SizeReturned
    /\ call.string = <<"7", "2", "p", "t">>
    /\ result = Float(R(72))

\* C9, as stated: size("1in") = 72.0 and size("72pt") = 72.0 * (1/72) = 1.0;
\* the empty string gives 0 and "10" gives 10.0.
C9_AsStated ==
    SizeReturned =>
        /\ call.string = <<"1", "i", "n">> => result = Float(R(72))
        /\ call.string = <<"7", "2", "p", "t">> => result = Float(R(1))
        /\ call.string = <<>> => result = [tag |-> "int", val |-> R(0)]
        /\ call.string = <<"1", "0">> => result = Float(R(10))

\* The strings C8 is about: not empty, not "none", not an rgb()/rgba() form
\* and not a colour name.
PlainColorString(string) ==
    LET t == lower(strip(string, WhiteSpace))
    IN  /\ string # <<>>
        /\ string # <<"n", "o", "n", "e">>
        /\ ~startswith(t, <<"r", "g", "b">>)
        /\ t \notin DOMAIN COLORS

\* C8: for a colour string that is not empty, not "none", not rgb()/rgba()
\* and not a name, color() raises unless the string has length 4, 5, 7 or 9;
\* for every other length it never returns an RGBA value.
C8_MalformedHexLengthRaises ==
    /\ call.fn = "color"
    /\ result # Pending
    /\ PlainColorString(call.string)
    /\ Len(strip(call.string, WhiteSpace)) \notin {4, 5, 7, 9}
    => result.tag = "ValueError"

\* C7: for a viewBox (x, y, w, h) with w, h > 0 and a target width, height
\* > 0 the installed transform scales both axes by min(width/w, height/h)
\* and maps the viewBox rectangle onto a rectangle inside the target and
\* centred in it, whatever the viewBox origin; viewBox (0,0,200,100) into
\* (100,100) gives scale 0.5 and vertical translation 25.
C7_FitContainsAndCentres ==
    /\ call.fn = "_set_context_size"
    /\ result # Pending
    /\ call.viewbox # <<>>
    /\ call.viewbox[3].n > 0
    /\ call.viewbox[4].n > 0
    =>
    LET m == context.matrix
        x == call.viewbox[1]
        y == call.viewbox[2]
        w == call.viewbox[3]
        h == call.viewbox[4]
        left == RAdd(RMul(m.xx, x), m.x0)
        right == RAdd(RMul(m.xx, RAdd(x, w)), m.x0)
        top == RAdd(RMul(m.yy, y), m.y0)
        bottom == RAdd(RMul(m.yy, RAdd(y, h)), m.y0)
        factor == RMin(RDiv(call.width, w), RDiv(call.height, h))
    IN  /\ m.xx = factor
        /\ m.yy = factor
        /\ ~RLt(left, R(0)) /\ ~RLt(call.width, right)
        /\ ~RLt(top, R(0)) /\ ~RLt(call.height, bottom)
        /\ RAdd(left, right) = call.width
        /\ RAdd(top, bottom) = call.height
        /\ call \in FitExamples /\ w = R(200) => m.yy = Frac(1, 2) /\ m.y0 = R(25)

(***************************************************************************)
(* Claims about the path interpreter.                                      *)
(***************************************************************************)
\* path() has left its loop: it returned or it raised
PathOver == call.fn = "path" /\ scan.state \in {"returned", "raised"}

\* the path data of the generated inputs: a prefix, then commands
Prefixes == {<<>>, <<"M", "3", ",", "6">>}
StartOf(prefix) == IF prefix = <<>> THEN <<R(0), R(0)>> ELSE <<R(3), R(6)>>

\* the value of the i-th number of the operands that start at Numbers[first]
Operand(first, i) == float(Numbers[((first + i - 2) % Len(Numbers)) + 1]).val

\* what may follow the command under test: nothing, or a close-path
Followers == {<<>>, <<"Z">>}

\* C1: every iteration of the scanning loop of path() shortens the remaining
\* input or raises, whatever the active command is (also when numbers
\* follow Z or z), so the loop ends by consuming the string or by raising.
C1_IterationShortensOrRaises ==
    [][scan.state = "loop" =>
          \/ scan'.state = "raised"
          \/ Len(scan'.string) < Len(scan.string)]_vars

\* 2/3 of the control point plus 1/3 of the other point
Blend(control, other) == RAdd(RDiv(RMul(R(2), control), R(3)), RDiv(other, R(3)))

\* the cubic C3 states for the i-th operand group of a Q (absolute) or q
\* (relative to the current point) that follows the prefix
ExpectedCubic(letter, prefix, i) ==
    LET cx == Operand(1, 4 * i - 3)
        cy == Operand(1, 4 * i - 2)
        ex == Operand(1, 4 * i - 1)
        ey == Operand(1, 4 * i)
        sx == IF letter = "q" THEN R(0)
              ELSE IF i = 1 THEN StartOf(prefix)[1] ELSE Operand(1, 4 * i - 5)
        sy == IF letter = "q" THEN R(0)
              ELSE IF i = 1 THEN StartOf(prefix)[2] ELSE Operand(1, 4 * i - 4)
    IN  Op(IF letter = "q" THEN "rel_curve_to" ELSE "curve_to",
           <<Blend(cx, sx), Blend(cy, sy), Blend(cx, ex), Blend(cy, ey), ex, ey>>)

\* C3: Q and q emit one cubic per operand group, with control points
\* 2/3*control + 1/3*start and 2/3*control + 1/3*end and the given end
\* point, start being the current point before the group, whatever follows
\* the command; "M0,0 Q5,10 10,0" emits move(0,0) and exactly one cubic.
C3_QuadraticEmitsOneCubicPerGroup ==
    PathOver =>
        /\ call.d = <<"M", "0", ",", "0", " ", "Q", "5", ",", "1", "0", " ",
                      "1", "0", ",", "0">>
           => /\ scan.state = "returned"
              /\ ops = << Op("move_to", <<R(0), R(0)>>),
                          Op("curve_to", <<Frac(10, 3), Frac(20, 3), Frac(20, 3),
                                           Frac(20, 3), R(10), R(0)>>) >>
        /\ \A prefix \in Prefixes, letter \in {"Q", "q"},
              k \in 1..MaxGroups, follower \in Followers :
              call.d = prefix \o <<letter>> \o operands(1, 4 * k, 1) \o follower
              => /\ scan.state = "returned"
                 /\ Len(ops) = Len(prefix) \div 4 + k + Len(follower)
                 /\ \A i \in 1..k :
                       ops[Len(prefix) \div 4 + i] = ExpectedCubic(letter, prefix, i)

\* the cairo calls that are a primitive of a command
Primitive(letter) ==
    CASE letter = "M" -> {"move_to"}
      [] letter = "m" -> {"rel_move_to"}
      [] letter \in {"L", "H", "V"} -> {"line_to"}
      [] letter \in {"l", "h", "v"} -> {"rel_line_to"}
      [] letter \in {"C", "S", "T"} -> {"curve_to"}
      [] letter \in {"c", "s", "t"} -> {"rel_curve_to"}
      [] letter \in {"A", "a"} -> {"arc", "arc_negative"}

\* the calls at positions from..to of the log that are primitives of letter
Emitted(letter, from, to) ==
    Cardinality({i \in from..to : ops[i].op \in Primitive(letter)})

\* arcs with radii that are not 0: one operand group, or two
ProperArcs ==
    { [groups |-> 1,
       d |-> <<"3", " ", "3", " ", "0", " ", "0", " ", "1", " ", "6", ",", "6">>],
      [groups |-> 1,
       d |-> <<"3", ",", "6", " ", "9", "0", " ", "1", " ", "1", " ", "9", "-", "6">>],
      [groups |-> 2,
       d |-> <<"3", " ", "3", " ", "0", " ", "0", " ", "1", " ", "6", ",", "6",
               " ", "1", " ", "2", " ", "0", " ", "0", " ", "0", " ", "4", " ", "2">>] }

\* C4: a command letter followed by k >= 1 complete operand groups emits
\* exactly k primitives of that command and then goes on with the next
\* letter or stops normally at the end of the input, also as the last
\* command; "M0,0 L10,10 Z" emits move(0,0), line(10,10), close and
\* "M0,0 h10 20" emits a move and two horizontal lines.
C4_CommandPersistsAcrossGroups ==
    PathOver =>
        /\ call.d = <<"M", "0", ",", "0", " ", "L", "1", "0", ",", "1", "0", " ", "Z">>
           => /\ scan.state = "returned"
              /\ ops = << Op("move_to", <<R(0), R(0)>>),
                          Op("line_to", <<R(10), R(10)>>),
                          Op("close_path", <<>>) >>
        /\ call.d = <<"M", "0", ",", "0", " ", "h", "1", "0", " ", "2", "0">>
           => /\ scan.state = "returned"
              /\ ops = << Op("move_to", <<R(0), R(0)>>),
                          Op("rel_line_to", <<R(10), R(0)>>),
                          Op("rel_line_to", <<R(20), R(0)>>) >>
        /\ \A letter \in Chars(PATH_LETTERS) \ {"a", "A", "q", "Q", "z", "Z"},
              k \in 1..MaxGroups, follower \in Followers :
              call.d = <<"M", "3", ",", "6">> \o <<letter>>
                          \o operands(1, k * GroupSize(letter), 1) \o follower
              => /\ scan.state = "returned"
                 /\ Emitted(letter, 2, Len(ops) - Len(follower)) = k
                 /\ Len(ops) = 1 + k + Len(follower)
        /\ \A letter \in {"a", "A"}, arc \in ProperArcs :
              call.d = <<"M", "3", ",", "6">> \o <<letter>> \o arc.d
              => /\ scan.state = "returned"
                 /\ Emitted(letter, 2, Len(ops)) = arc.groups

\* the active letter of the iteration that has just run is one of letters
Ran(letters) ==
    /\ scan.state = "loop"
    /\ scan'.state \in {"loop", "returned"}
    /\ scan'.letter \in {<<l>> : l \in letters}
    /\ Len(ops') = Len(ops) + 1

\* the previous command's last control point in absolute coordinates: as
\* given after an absolute command, and offset from that command's start
\* point (the current point less its relative end point) after a relative one
PreviousControl ==
    IF scan.last_letter \in {<<"C">>, <<"S">>, <<"Q">>}
    THEN <<scan.x2.val, scan.y2.val>>
    ELSE << RAdd(RSub(context.point[1], scan.x3.val), scan.x2.val),
            RAdd(RSub(context.point[2], scan.y3.val), scan.y2.val) >>

\* 2 * current - previous control
Reflected ==
    << RSub(RMul(R(2), context.point[1]), PreviousControl[1]),
       RSub(RMul(R(2), context.point[2]), PreviousControl[2]) >>

\* a point of the call just made, in absolute coordinates
Absolute(x, y) ==
    IF ops'[Len(ops')].op = "rel_curve_to"
    THEN <<RAdd(context.point[1], x), RAdd(context.point[2], y)>>
    ELSE <<x, y>>

\* the first control point of the cubic just emitted
FirstControl == Absolute(ops'[Len(ops')].args[1], ops'[Len(ops')].args[2])

\* the quadratic control point the cubic just emitted was elevated from:
\* its first control point is 2/3 of it plus 1/3 of the current point
ElevatedControl ==
    << RDiv(RSub(RMul(R(3), FirstControl[1]), context.point[1]), R(2)),
       RDiv(RSub(RMul(R(3), FirstControl[2]), context.point[2]), R(2)) >>

\* C5: the first control point of the cubic of S or s is the reflection
\* 2*current - previous_control of the previous command's last control
\* point when that command was C, c, S or s, and the current point
\* otherwise; the quadratic control point T or t elevates is the
\* reflection of the previous quadratic control point.
C5_SmoothReflection ==
    [][/\ Ran({"S", "s"})
          => FirstControl =
                IF scan.last_letter \in {<<"C">>, <<"c">>, <<"S">>, <<"s">>}
                THEN Reflected
                ELSE context.point
       /\ Ran({"T", "t"}) /\ scan.last_letter \in {<<"Q">>, <<"q">>}
          => ElevatedControl = Reflected]_vars

\* arcs with rx = 0 or ry = 0, all ending at (6, 6)
ZeroRadiusArcs ==
    { <<"0", " ", "3", " ", "0", " ", "0", " ", "1", " ", "6", ",", "6">>,
      <<"3", " ", "0", " ", "0", " ", "1", " ", "0", " ", "6", ",", "6">> }

\* C6: an A or a whose rx or ry is 0 does not raise; it emits a straight
\* line from the current point to the end point of the arc.
C6_ZeroRadiusArcDrawsLine ==
    PathOver =>
        \A prefix \in Prefixes, letter \in {"A", "a"}, arc \in ZeroRadiusArcs :
            call.d = prefix \o <<letter>> \o arc
            => /\ scan.state = "returned"
               /\ ops # <<>>
               /\ ops[Len(ops)].op \in {"line_to", "rel_line_to"}
               /\ context.point =
                     IF letter = "A" THEN <<R(6), R(6)>>
                     ELSE add_point(StartOf(prefix), R(6), R(6))

\* the iteration that has just run drew an arc: save, translate, rotate,
\* scale, arc, restore
ArcRan ==
    /\ scan.state = "loop"
    /\ scan'.state \in {"loop", "returned"}
    /\ scan'.letter \in {<<"a">>, <<"A">>}
    /\ Len(ops') = Len(ops) + 6

\* the radii as written in the path data the iteration started on
SuppliedRadii == point(next_letter(scan).string)

\* what the iteration passed to rotate (degrees), to scale (ry / rx) and
\* to arc, and the offset from the start point to the end point
PassedRotation == ops'[Len(ops') - 3].args[1]
PassedRatio == ops'[Len(ops') - 2].args[2]
PassedRadiusSquared == ops'[Len(ops') - 1].args.rx_squared
OffsetSquared(v) == RMul(v.val, v.val)

\* the square of the distance from the start point to the end point
ChordSquared == RAdd(OffsetSquared(scan'.x3), OffsetSquared(scan'.y3))

\* the square of the length of the reduced chord: the offset turned back by
\* the rotation (a quarter turn swaps its components), its y component
\* divided by ry / rx
ReducedChordSquared ==
    IF (PassedRotation.n \div 90) % 2 = 0
    THEN RAdd(OffsetSquared(scan'.x3),
              RDiv(OffsetSquared(scan'.y3), RMul(PassedRatio, PassedRatio)))
    ELSE RAdd(OffsetSquared(scan'.y3),
              RDiv(OffsetSquared(scan'.x3), RMul(PassedRatio, PassedRatio)))

\* the arcs C11 is about, with a rotation of quarter turns
PositiveRadiiArc ==
    /\ ArcRan
    /\ SuppliedRadii.x.val.n > 0
    /\ SuppliedRadii.y.val.n > 0
    /\ PassedRotation.d = 1
    /\ PassedRotation.n % 90 = 0

\* the square of the radius to pass for a chord of that squared length:
\* a quarter of it when the supplied rx is shorter than half the chord
EnlargedTo(whole_squared) ==
    IF RLt(RMul(R(4), RMul(SuppliedRadii.x.val, SuppliedRadii.x.val)), whole_squared)
    THEN RDiv(whole_squared, R(4))
    ELSE RMul(SuppliedRadii.x.val, SuppliedRadii.x.val)

\* C11, as amended: for A/a with rx > 0 and ry > 0, if the supplied rx is
\* smaller than half the length of the reduced chord (the offset from the
\* start point to the end point with the rotation cancelled and its y
\* component divided by ry / rx), the rx passed to the arc primitive is
\* exactly half that length; otherwise the supplied rx is passed unchanged.
C11_RadiusEnlargedToHalfReducedChord ==
    [][PositiveRadiiArc => PassedRadiusSquared = EnlargedTo(ReducedChordSquared)]_vars

\* C11 witness: an arc with ry / rx = 2 has been drawn whose radius was
\* enlarged to half the reduced chord, which is not half the distance
\* between its start point and its end point (9, -6).
C11_Witness ==
    \E i \in 2..Len(ops) :
        /\ ops[i].op = "arc"
        /\ ops[i - 1].op = "scale"
        /\ ops[i - 1].args[2] = R(2)
        /\ scan.x3 = Float(R(9))
        /\ scan.y3 = Float(R(-6))
        /\ ops[i].args.rx_squared = Frac(225, 16)
        /\ ops[i].args.rx_squared = RDiv(ops[i].args.xe_squared, R(4))

\* C11, as stated: the rx passed is half the distance between the start
\* point and the end point when the supplied rx is smaller than that, for
\* any ratio ry / rx, and the supplied rx otherwise.
C11_AsStated ==
    [][PositiveRadiiArc => PassedRadiusSquared = EnlargedTo(ChordSquared)]_vars

(***************************************************************************)
(* Claims about the scene walker.                                          *)
(***************************************************************************)
\* the calls named name among the calls from..to of the log
Count(name, from, to) == Cardinality({i \in from..to : ops[i].op = name})

\* saves less restores among the calls from..to of the log
Unmatched(from, to) == Count("save", from, to) - Count("restore", from, to)

\* C2: when draw(node) returns normally, the saves issued during the call
\* (by draw, by ellipse, arc and use, and by all descendants) equal the
\* restores if the node is not marked as root, and exceed them by one if it
\* is; at no point during the call do the restores exceed the saves made
\* since entry; a defs node issues neither.  This holds for a use node too,
\* the subtree it resolves to being root-marked.
C2_SavesMatchRestores ==
    returned # NoReturn =>
        IF returned.node.tag = "defs"
        THEN /\ Count("save", returned.entry + 1, returned.exit) = 0
             /\ Count("restore", returned.entry + 1, returned.exit) = 0
        ELSE /\ Unmatched(returned.entry + 1, returned.exit)
                   = IF returned.node.root THEN 1 ELSE 0
             /\ \A i \in (returned.entry + 1)..returned.exit :
                   Unmatched(returned.entry + 1, i) >= 0

\* C10: at the fill draw() issues for a node, the fill rule of the context
\* is even-odd if and only if the node's own fill-rule attribute is
\* "evenodd", whatever an ancestor or a node drawn earlier had.
C10_FillRuleFromOwnAttribute ==
    [][Drawing("paint") =>
          (context'.fill_rule = "EVEN_ODD" <=> Top.node.fill_rule = EvenOdd)]_vars

\* the calls that tell the nodes and their steps apart in the log: the
\* shape handlers' drawing calls, the fill rule, the fill, the line width
\* (1 for a path tag, 0 for any other) and the stroke
ShapeCalls == {"line_to", "rel_line_to", "close_path", "new_sub_path", "arc"}
Marked(logged) ==
    logged.op \in ShapeCalls
        \cup {"set_fill_rule", "fill_preserve", "set_line_width", "stroke"}
Mark(logged) ==
    IF logged.op # "set_line_width" THEN logged.op
    ELSE IF logged.args[1] = R(1) THEN "width 1" ELSE "width 0"
MarksOf(logged) == [i \in 1..Len(logged) |-> Mark(logged[i])]
Marks == MarksOf(SelectSeq(ops, Marked))

\* the marks of the drawing calls a shape asks for
ShapeMarks(node) ==
    IF node.tag = "ellipse" THEN <<"new_sub_path", "arc">>
    ELSE IF node.tag # "path" THEN <<>>
    ELSE IF node.d = LinePath THEN <<"line_to", "close_path">>
    ELSE IF node.d = ArcPath THEN <<"arc">>
    ELSE <<"rel_line_to", "rel_line_to">>

\* one fill that keeps the path, then one stroke
PaintMarks(node) ==
    (IF node.fill_rule = EvenOdd THEN <<"set_fill_rule">> ELSE <<>>)
    \o <<"fill_preserve",
         IF node.tag \in PATH_TAGS THEN "width 1" ELSE "width 0",
         "stroke">>

\* the marks of a depth-first walk in pre-order: nothing for a defs node and
\* what is below it; for any other node its handler's marks (a use draws the
\* tree it refers to), its fill and stroke, then its children in document
\* order
RECURSIVE PreOrder(_), PreOrderFrom(_, _)
PreOrder(node) ==
    IF node.tag = "defs" THEN <<>>
    ELSE (IF node.tag = "use" THEN PreOrder(Tree(node.href)) ELSE ShapeMarks(node))
         \o PaintMarks(node)
         \o PreOrderFrom(node.children, 1)
PreOrderFrom(children, i) ==
    IF i > Len(children) THEN <<>>
    ELSE PreOrder(children[i]) \o PreOrderFrom(children, i + 1)

IsPrefix(s, t) == Len(s) <= Len(t) /\ SubSeq(t, 1, Len(s)) = s

\* the marks are the beginning of the walk, and all of it once draw returned
WalkedSoFar(marks, walk) ==
    /\ IsPrefix(marks, walk)
    /\ result = Raised("None") => Len(marks) = Len(walk)

\* C12: draw visits the nodes depth-first in pre-order with children in
\* document order; every visited node other than a defs issues, after its
\* shape handler and before any call of its children, exactly one
\* fill_preserve and then exactly one stroke, with or without a handler for
\* its tag; a defs node and its descendants issue no call at all.  At any
\* moment the marked calls are the beginning of the pre-order walk of the
\* tree, they are the whole walk once draw has returned, and a draw of a defs
\* node returns with the log as long as it was on entry.
C12_PreOrderFillThenStroke ==
    call.fn = "draw" =>
        /\ WalkedSoFar(Marks, PreOrder(tree))
        /\ returned # NoReturn /\ returned.node.tag = "defs"
           => returned.exit = returned.entry

\* C12 witness: draw has returned from a tree of MaxChildren children in
\* which an evenodd group with a path below it comes before a defs with a
\* path below it, with one fill and one stroke for each of the three nodes
\* that are not below the defs.
C12_Witness ==
    /\ call.fn = "draw"
    /\ result = Raised("None")
    /\ tree.children = << Group("g", EvenOdd, <<PathNode(LinePath, Absent)>>),
                          Group("defs", Absent, <<PathNode(LinePath, Absent)>>) >>
    /\ tree.fill_rule = Absent
    /\ Marks = << "fill_preserve", "width 0", "stroke",
                  "set_fill_rule", "fill_preserve", "width 0", "stroke",
                  "line_to", "close_path", "fill_preserve", "width 1", "stroke" >>

====
